---- MODULE Spec2Model ----
(***************************************************************************)
(* Model of pkg/notifier/github/notify.go: NotifyService.Notify, its       *)
(* helper getEmbeddedComment, and the label reconciliation done by         *)
(* updateLabels / removeResultLabels.  Every outbound call (parser,        *)
(* label client, template, commits, comment poster) is an external         *)
(* collaborator whose outcome is chosen nondeterministically.              *)
(***************************************************************************)
EXTENDS Integers, Sequences, FiniteSets, TLC

\* ------------------------------------------------------------------ bounds
MaxRuns == 2
MaxPRLabels == 2
MaxExitCode == 1

\* --------------------------------------------------------- value universes
NoError == "nil"
ParseErr == "parse error"
ExitCodes == 0 .. MaxExitCode
ResultTexts == {"", "Plan: 1 to add"}
Bool == {TRUE, FALSE}

DefaultColor == "ededed"
OtherColor == "cccccc"
AllLabels == {"add-or-update", "destroy", "no-changes", "plan-error", "unrelated"}

\* terraform.ParseResult, as far as Notify and updateLabels read it
ParseResults ==
    [ Result : ResultTexts, ExitCode : ExitCodes, Error : {NoError, ParseErr},
      HasParseError : Bool, HasAddOrUpdateOnly : Bool, HasDestroy : Bool,
      HasNoChanges : Bool, HasPlanError : Bool ]

\* the concrete type behind Config.Parser
ParserKinds == {"plan", "apply", "other"}

\* Config.ResultLabels
ResultLabelsAll ==
    [ AddOrUpdateLabel |-> "add-or-update", AddOrUpdateLabelColor |-> OtherColor,
      DestroyLabel |-> "destroy", DestroyLabelColor |-> DefaultColor,
      NoChangesLabel |-> "no-changes", NoChangesLabelColor |-> OtherColor,
      PlanErrorLabel |-> "plan-error", PlanErrorLabelColor |-> "" ]
ResultLabelsSome ==
    [ AddOrUpdateLabel |-> "", AddOrUpdateLabelColor |-> "",
      DestroyLabel |-> "destroy", DestroyLabelColor |-> OtherColor,
      NoChangesLabel |-> "no-changes", NoChangesLabelColor |-> "",
      PlanErrorLabel |-> "", PlanErrorLabelColor |-> "" ]
ResultLabelsNone ==
    [ AddOrUpdateLabel |-> "", AddOrUpdateLabelColor |-> "",
      DestroyLabel |-> "", DestroyLabelColor |-> "",
      NoChangesLabel |-> "", NoChangesLabelColor |-> "",
      PlanErrorLabel |-> "", PlanErrorLabelColor |-> "" ]
ResultLabelConfigs == {ResultLabelsAll, ResultLabelsSome, ResultLabelsNone}

\* Config.PR
PRNumbers == {0, 7}
MergedNumbers == {9}
HeadRevision == "rev-head"
OlderRevision == "rev-older"

VARIABLES
    pc,            \* position of the Notify invocation
    run,           \* number of the current Notify invocation
    param,         \* notifier.ParamExec
    parserKind,    \* dynamic type of Config.Parser
    config,        \* g.client.Config (shared, survives the invocation)
    cfg,           \* Notify's local copy of the Config
    parsed,        \* what parser.Parse returns for param.CombinedOutput
    result,        \* Notify's local ParseResult
    template,      \* Notify's local template
    errMsgs,       \* error messages collected by updateLabels
    labelToAdd, labelColor, currentLabelColor,   \* locals of updateLabels
    labels, idx,   \* the listing removeResultLabels ranges over
    prLabels,      \* labels attached to the pull request (GitHub side)
    repoColor,     \* color of every label (GitHub side)
    templateValue, \* what SetValue received
    body,          \* rendered body plus marker
    posted,        \* what Comment.Post received
    ret,           \* what Notify returned
    calls,         \* collaborator calls of this invocation, in order
    commits,       \* what Commits.List returned
    prev           \* outcome of the previous invocation

vars == << pc, run, param, parserKind, config, cfg, parsed, result, template,
           errMsgs, labelToAdd, labelColor, currentLabelColor, labels, idx,
           prLabels, repoColor, templateValue, body, posted, ret, calls, commits,
           prev >>

\* ------------------------------------------------------- pure helpers
\* PullRequest.IsNumber
IsNumber(pr) == pr.Number # 0

\* ResultLabels.HasAnyLabelDefined
HasAnyLabelDefined(rl) ==
    \/ rl.AddOrUpdateLabel # ""
    \/ rl.DestroyLabel # ""
    \/ rl.NoChangesLabel # ""
    \/ rl.PlanErrorLabel # ""

\* ResultLabels.IsResultLabel
IsResultLabel(rl, label) ==
    /\ label # ""
    /\ label \in {rl.AddOrUpdateLabel, rl.DestroyLabel, rl.NoChangesLabel, rl.PlanErrorLabel}

\* result.ExitCode = param.ExitCode
KeepParsedExitCode(r, p) == r
OverwriteExitCode(r, p) == [r EXCEPT !.ExitCode = p.ExitCode]

\* if result.HasParseError { template = ParseErrorTemplate }
AlwaysNormalTemplate(r) == "normal"
SelectTemplate(r) == IF r.HasParseError THEN "parse_error" ELSE "normal"

\* the two early returns of the parse stage
ReturnsOnEmptyResultOnly(r) == ~r.HasParseError /\ r.Result = ""
ReturnsOnErrorOnly(r) == ~r.HasParseError /\ r.Error # NoError
ReturnsAtParse(r) == ~r.HasParseError /\ (r.Error # NoError \/ r.Result = "")

\* if isPlan { if cfg.PR.IsNumber() && cfg.ResultLabels.HasAnyLabelDefined() {
RunsUpdateLabelsWithoutNumber(kind, c) ==
    kind = "plan" /\ HasAnyLabelDefined(c.ResultLabels)
RunsUpdateLabels(kind, c) ==
    kind = "plan" /\ IsNumber(c.PR) /\ HasAnyLabelDefined(c.ResultLabels)

\* the switch of updateLabels: labelToAdd and labelColor
NoTarget == [name |-> "", color |-> ""]
TargetLabelDestroyFirst(r, rl) ==
    IF r.HasDestroy
      THEN [name |-> rl.DestroyLabel, color |-> rl.DestroyLabelColor]
    ELSE IF r.HasAddOrUpdateOnly
      THEN [name |-> rl.AddOrUpdateLabel, color |-> rl.AddOrUpdateLabelColor]
    ELSE IF r.HasNoChanges
      THEN [name |-> rl.NoChangesLabel, color |-> rl.NoChangesLabelColor]
    ELSE IF r.HasPlanError
      THEN [name |-> rl.PlanErrorLabel, color |-> rl.PlanErrorLabelColor]
    ELSE NoTarget
TargetLabel(r, rl) ==
    IF r.HasAddOrUpdateOnly
      THEN [name |-> rl.AddOrUpdateLabel, color |-> rl.AddOrUpdateLabelColor]
    ELSE IF r.HasDestroy
      THEN [name |-> rl.DestroyLabel, color |-> rl.DestroyLabelColor]
    ELSE IF r.HasNoChanges
      THEN [name |-> rl.NoChangesLabel, color |-> rl.NoChangesLabelColor]
    ELSE IF r.HasPlanError
      THEN [name |-> rl.PlanErrorLabel, color |-> rl.PlanErrorLabelColor]
    ELSE NoTarget

\* if currentLabelColor == "" { IssuesAddLabels ...
AlwaysAdds(current) == TRUE
NeedsAdd(current) == current = ""

\* label.GetColor() != labelColor, and: labelColor != "" && labelColor != currentLabelColor
NeverUpdatesColor(wanted, current) == FALSE
NeedsColorUpdate(wanted, current) == wanted # "" /\ wanted # current

\* if labelText == label { labelColor = l.GetColor(); continue }
KeepsEveryLabel(labelText, label) == TRUE
NoLabelIsTarget(labelText, label) == FALSE
IsTarget(labelText, label) == labelText = label

\* where updateLabels goes once removeResultLabels has returned
AfterRemove(target, wanted, current) ==
    IF target = "" THEN "render"
    ELSE IF NeedsAdd(current) THEN "add_label"
    ELSE IF NeedsColorUpdate(wanted, current) THEN "update_label"
    ELSE "render"

\* the orders in which a listing may return a set of labels
Listings(S) ==
    { s \in [1 .. Cardinality(S) -> S] : \A i, j \in 1 .. Cardinality(S) : s[i] = s[j] => i = j }

\* error-message strings built by updateLabels
RemoveMsg(cause) == << "remove labels: ", cause >>
AddMsg(name, cause) == << "add a label ", name, ": ", cause >>
ColorMsg(name, color, cause) ==
    << "update a label color (name: ", name, ", color: ", color, "): ", cause >>

NotReturned == [returned |-> FALSE, code |-> 0, err |-> NoError]
Returned(code, err) == [returned |-> TRUE, code |-> code, err |-> err]
NoValue == [set |-> FALSE, template |-> "", Result |-> "", ExitCode |-> 0,
            HasDestroy |-> FALSE, ErrorMessages |-> << >>]
NoTargetVar == [present |-> FALSE, value |-> ""]
NoMarker == [set |-> FALSE, Vars |-> << >>, SHA1 |-> "", PRNumber |-> 0,
             Target |-> NoTargetVar, Command |-> ""]
NoBody == [template |-> "", ErrorMessages |-> << >>, marker |-> NoMarker]
NoPost == [done |-> FALSE, Number |-> 0, Revision |-> "", body |-> NoBody]
NoPrev == [ran |-> FALSE, reconciled |-> FALSE, failed |-> FALSE, mutated |-> FALSE,
           errMsgs |-> << >>]

\* reading the call log
LabelOps == {"IssuesListLabels", "IssuesRemoveLabel", "IssuesAddLabels", "IssuesUpdateLabel"}
MutationOps == {"IssuesRemoveLabel", "IssuesAddLabels", "IssuesUpdateLabel"}
Called(log, ops) == { i \in 1 .. Len(log) : log[i][1] \in ops }
CalledWith(log, ops, outcomes) ==
    { i \in 1 .. Len(log) : log[i][1] \in ops /\ log[i][3] \in outcomes }

\* Commits.List results and the spec's "pick most recent" helper (Commits.lastOne)
CommitOlder == [sha |-> OlderRevision, time |-> 1]
CommitHead == [sha |-> HeadRevision, time |-> 2]
CommitListings == { << >>, << CommitOlder >>, << CommitHead >>,
                    << CommitHead, CommitOlder >>, << CommitOlder, CommitHead >> }
lastOne(listing, revision) ==
    IF listing = << >> THEN ""
    ELSE LET i == CHOOSE i \in 1 .. Len(listing) :
                    \A j \in 1 .. Len(listing) : listing[j].time <= listing[i].time
         IN listing[i].sha

\* Command of the marker: plan exactly for the plan parser
Command(kind) == IF kind = "plan" THEN "plan" ELSE "apply"

\* Config.Vars and Config.EmbeddedVarNames
VarsProd == [target |-> "prod", secret |-> "s3"]
VarsEmptyTarget == [target |-> "", env |-> "dev"]
VarsEnv == [env |-> "dev"]
VarConfigs == {VarsProd, VarsEmptyTarget, VarsEnv}
VarNameConfigs == { << "target" >>, << "target", "env" >>, << "env", "region" >> }

\* cfg.Vars[name]: the value, or "" for a name that is not configured
VarOf(vs, name) == IF name \in DOMAIN vs THEN vs[name] ELSE ""

\* getEmbeddedComment lines 107-110: copy the allow-listed variables
AllVarsEmbedded(c) == c.Vars
EmbeddedVars(c) ==
    [ name \in { c.EmbeddedVarNames[i] : i \in 1 .. Len(c.EmbeddedVarNames) }
        |-> VarOf(c.Vars, name) ]

\* getEmbeddedComment lines 118-120: Target only if the variable is not empty
EmbeddedTarget(c) ==
    [present |-> VarOf(c.Vars, "target") # "", value |-> VarOf(c.Vars, "target")]

\* ------------------------------------------------------------ initial states
\* the labels a pull request starts with
AttachedLabels == {"destroy", "no-changes", "plan-error", "unrelated"}
LabelSets == { S \in SUBSET AttachedLabels : Cardinality(S) <= MaxPRLabels }
Configs == [ ResultLabels : ResultLabelConfigs,
             PR : [Number : PRNumbers, Revision : {HeadRevision}],
             Vars : {VarsProd}, EmbeddedVarNames : { << "target" >> } ]
MarkerConfigs == [ ResultLabels : {ResultLabelsNone},
                   PR : [Number : PRNumbers, Revision : {HeadRevision}],
                   Vars : VarConfigs, EmbeddedVarNames : VarNameConfigs ]

Locals ==
    /\ pc = "start"
    /\ run = 1
    /\ cfg = config
    /\ result = parsed
    /\ template = "normal"
    /\ errMsgs = << >>
    /\ labelToAdd = ""
    /\ labelColor = ""
    /\ currentLabelColor = ""
    /\ labels = << >>
    /\ idx = 1
    /\ repoColor = [l \in AllLabels |-> DefaultColor]
    /\ templateValue = NoValue
    /\ body = NoBody
    /\ posted = NoPost
    /\ ret = NotReturned
    /\ calls = << >>
    /\ commits = << >>
    /\ prev = NoPrev

\* every parse outcome, parser and configuration; one label situation
InitFlow ==
    /\ param \in [ExitCode : ExitCodes]
    /\ parserKind \in ParserKinds
    /\ config \in { c \in Configs : c.ResultLabels \in {ResultLabelsAll, ResultLabelsNone} }
    /\ parsed \in { r \in ParseResults :
                       /\ ~r.HasAddOrUpdateOnly /\ ~r.HasPlanError
                       /\ r.HasDestroy = ~r.HasNoChanges }
    /\ prLabels = {"destroy", "unrelated"}
    /\ Locals

\* a plan that reaches updateLabels
PlanConfigs == { c \in Configs : IsNumber(c.PR) /\ HasAnyLabelDefined(c.ResultLabels) }
PlanResults == { r \in ParseResults :
                   /\ r.ExitCode = 0 /\ r.Result # ""
                   /\ ~r.HasParseError /\ r.Error = NoError }
FlagCount(r) ==
    (IF r.HasAddOrUpdateOnly THEN 1 ELSE 0) + (IF r.HasDestroy THEN 1 ELSE 0)
      + (IF r.HasNoChanges THEN 1 ELSE 0) + (IF r.HasPlanError THEN 1 ELSE 0)

\* every flag combination, on a pull request without labels
InitPriority ==
    /\ param \in [ExitCode : {0}]
    /\ parserKind = "plan"
    /\ config \in PlanConfigs
    /\ parsed \in PlanResults
    /\ prLabels = {}
    /\ Locals

\* every label situation, for at most one flag
InitLabels ==
    /\ param \in [ExitCode : {0}]
    /\ parserKind = "plan"
    /\ config \in PlanConfigs
    /\ parsed \in { r \in PlanResults : FlagCount(r) <= 1 }
    /\ prLabels \in LabelSets
    /\ Locals

\* every parser and every choice of variables and allow-list, no labels
InitMarker ==
    /\ param \in [ExitCode : {0}]
    /\ parserKind \in ParserKinds
    /\ config \in MarkerConfigs
    /\ parsed \in { r \in PlanResults : FlagCount(r) = 0 }
    /\ prLabels = {}
    /\ Locals

Init == InitFlow \/ InitPriority \/ InitLabels \/ InitMarker

\* ------------------------------------------------------------------ actions
Call(op, arg, outcome) == calls' = Append(calls, << op, arg, outcome >>)

\* Notify, lines 20-43: copy the config, parse, choose the template, return
\* early or go on to the labels or to the template
Parse ==
    /\ pc = "start"
    /\ LET res == OverwriteExitCode(parsed, param) IN
        /\ result' = res
        /\ template' = SelectTemplate(res)
        /\ cfg' = config
        /\ Call("Parse", "", "ok")
        /\ IF ReturnsAtParse(res)
             THEN pc' = "done" /\ ret' = Returned(res.ExitCode, res.Error)
             ELSE /\ ret' = ret
                  /\ pc' = IF RunsUpdateLabels(parserKind, config)
                              THEN "list_labels" ELSE "render"
    /\ UNCHANGED << commits, run, param, parserKind, config, parsed, errMsgs, labelToAdd,
                    labelColor, currentLabelColor, labels, idx, prLabels, repoColor,
                    templateValue, body, posted, prev >>

\* updateLabels lines 137-169 with removeResultLabels lines 216-220:
\* the listing fails
ListLabelsFails ==
    /\ pc = "list_labels"
    /\ LET target == TargetLabel(result, config.ResultLabels) IN
        /\ labelToAdd' = target.name
        /\ labelColor' = target.color
        /\ currentLabelColor' = ""
        /\ errMsgs' = << RemoveMsg("list failed") >>
        /\ pc' = AfterRemove(target.name, target.color, "")
    /\ Call("IssuesListLabels", "", "error")
    /\ UNCHANGED << commits, run, param, parserKind, config, cfg, parsed, result, template,
                    labels, idx, prLabels, repoColor, templateValue, body, posted,
                    ret, prev >>

\* updateLabels lines 137-163 with removeResultLabels lines 216-222:
\* the listing returns the attached labels in some order
ListLabelsOK ==
    /\ pc = "list_labels"
    /\ LET target == TargetLabel(result, config.ResultLabels) IN
        /\ labelToAdd' = target.name
        /\ labelColor' = target.color
        /\ currentLabelColor' = ""
        /\ errMsgs' = << >>
        /\ \E s \in Listings(prLabels) :
              /\ labels' = s
              /\ idx' = 1
              /\ pc' = IF Len(s) = 0 THEN AfterRemove(target.name, target.color, "")
                                     ELSE "range_labels"
    /\ Call("IssuesListLabels", "", "ok")
    /\ UNCHANGED << commits, run, param, parserKind, config, cfg, parsed, result, template,
                    prLabels, repoColor, templateValue, body, posted, ret, prev >>

\* removeResultLabels leaves its loop: back in updateLabels at line 165
Advance(current) ==
    /\ idx' = idx + 1
    /\ pc' = IF idx + 1 > Len(labels)
                THEN AfterRemove(labelToAdd, labelColor, current)
                ELSE "range_labels"

\* removeResultLabels lines 223-228: the target label is kept, its color remembered
RangeTarget ==
    /\ pc = "range_labels"
    /\ IsTarget(labels[idx], labelToAdd)
    /\ currentLabelColor' = repoColor[labels[idx]]
    /\ Advance(repoColor[labels[idx]])
    /\ UNCHANGED << commits, run, param, parserKind, config, cfg, parsed, result, template,
                    errMsgs, labelToAdd, labelColor, labels, prLabels, repoColor,
                    templateValue, body, posted, ret, calls, prev >>

\* removeResultLabels line 229: a label that is no result label is skipped
RangeOther ==
    /\ pc = "range_labels"
    /\ ~IsTarget(labels[idx], labelToAdd)
    /\ ~IsResultLabel(config.ResultLabels, labels[idx])
    /\ Advance(currentLabelColor)
    /\ UNCHANGED << commits, run, param, parserKind, config, cfg, parsed, result, template,
                    errMsgs, labelToAdd, labelColor, currentLabelColor, labels,
                    prLabels, repoColor, templateValue, body, posted, ret, calls, prev >>

\* removeResultLabels lines 229-235: a stale result label is removed.  The call
\* succeeds, or fails with status 404 (the label is not on the pull request),
\* or fails with another status, or fails without any response (resp == nil,
\* so that resp.StatusCode panics).
RemoveOutcomes == {"ok", "not_found", "error", "no_response"}

\* if err != nil && resp.StatusCode != http.StatusNotFound { return labelColor, err }
NotFoundIsAnError(outcome) == outcome = "ok"
RemovalPasses(outcome) == outcome \in {"ok", "not_found"}
RangeStale ==
    /\ pc = "range_labels"
    /\ ~IsTarget(labels[idx], labelToAdd)
    /\ IsResultLabel(config.ResultLabels, labels[idx])
    /\ \E outcome \in RemoveOutcomes :
         /\ Call("IssuesRemoveLabel", labels[idx], outcome)
         /\ prLabels' = IF outcome \in {"ok", "not_found"}
                          THEN prLabels \ {labels[idx]} ELSE prLabels
         /\ CASE outcome = "no_response" ->
                    /\ idx' = idx
                    /\ errMsgs' = errMsgs
                    /\ pc' = "panicked"
              [] outcome # "no_response" /\ RemovalPasses(outcome) ->
                    /\ Advance(currentLabelColor)
                    /\ errMsgs' = errMsgs
              [] outcome # "no_response" /\ ~RemovalPasses(outcome) ->
                    /\ idx' = idx
                    /\ errMsgs' = Append(errMsgs, RemoveMsg("remove failed"))
                    /\ pc' = AfterRemove(labelToAdd, labelColor, currentLabelColor)
    /\ UNCHANGED << commits, run, param, parserKind, config, cfg, parsed, result, template,
                    labelToAdd, labelColor, currentLabelColor, labels, repoColor,
                    templateValue, body, posted, ret, prev >>

\* updateLabels lines 175-200: add the target label; the call returns the
\* labels now attached, and the color is updated if it differs
AddLabel ==
    /\ pc = "add_label"
    /\ \/ /\ Call("IssuesAddLabels", labelToAdd, "ok")
          /\ prLabels' = prLabels \cup {labelToAdd}
          /\ errMsgs' = errMsgs
          /\ pc' = IF NeedsColorUpdate(labelColor, repoColor[labelToAdd])
                      THEN "update_label" ELSE "render"
       \/ /\ Call("IssuesAddLabels", labelToAdd, "error")
          /\ prLabels' = prLabels
          /\ errMsgs' = Append(errMsgs, AddMsg(labelToAdd, "add failed"))
          /\ pc' = "render"
    /\ UNCHANGED << commits, run, param, parserKind, config, cfg, parsed, result, template,
                    labelToAdd, labelColor, currentLabelColor, labels, idx, repoColor,
                    templateValue, body, posted, ret, prev >>

\* updateLabels lines 189-196 and 203-210: set the color of the target label
UpdateLabel ==
    /\ pc = "update_label"
    /\ \/ /\ Call("IssuesUpdateLabel", labelToAdd, "ok")
          /\ repoColor' = [repoColor EXCEPT ![labelToAdd] = labelColor]
          /\ errMsgs' = errMsgs
       \/ /\ Call("IssuesUpdateLabel", labelToAdd, "error")
          /\ repoColor' = repoColor
          /\ errMsgs' = Append(errMsgs, ColorMsg(labelToAdd, labelColor, "update failed"))
    /\ pc' = "render"
    /\ UNCHANGED << commits, run, param, parserKind, config, cfg, parsed, result, template,
                    labelToAdd, labelColor, currentLabelColor, labels, idx, prLabels,
                    templateValue, body, posted, ret, prev >>

\* if err != nil { return result.ExitCode, err } after template.Execute
RenderFailureIgnored(err) == "continue"
AfterExecute(err) == IF err # NoError THEN "return" ELSE "continue"

\* Notify lines 45-68: SetValue on the chosen template, then Execute
Render ==
    /\ pc = "render"
    /\ templateValue' = [set |-> TRUE, template |-> template, Result |-> result.Result,
                          ExitCode |-> param.ExitCode, HasDestroy |-> result.HasDestroy,
                          ErrorMessages |-> errMsgs]
    /\ \E err \in {NoError, "render error"} :
         /\ calls' = calls \o << << "SetValue", template, "ok" >>,
                                  << "Execute", template,
                                     IF err = NoError THEN "ok" ELSE "error" >> >>
         /\ IF AfterExecute(err) = "return"
              THEN /\ ret' = Returned(result.ExitCode, err)
                   /\ pc' = "done"
                   /\ body' = body
              ELSE /\ ret' = ret
                   /\ pc' = IF parserKind = "apply" THEN "merged_pr" ELSE "marker"
                   /\ body' = [template |-> template, ErrorMessages |-> errMsgs,
                                marker |-> NoMarker]
    /\ UNCHANGED << commits, run, param, parserKind, config, cfg, parsed, result, template,
                    errMsgs, labelToAdd, labelColor, currentLabelColor, labels, idx,
                    prLabels, repoColor, posted, prev >>

\* cfg.PR.Number = prNumber
NumberAndRevisionCleared(c, n) == [c EXCEPT !.PR.Number = n, !.PR.Revision = ""]
WithNumber(c, n) == [c EXCEPT !.PR.Number = n]

\* } else if !cfg.PR.IsNumber() { commits, err := g.client.Commits.List(...
AlwaysListsCommits(pr) == "list_commits"
AfterLookupFailure(pr) == IF ~IsNumber(pr) THEN "list_commits" ELSE "marker"

\* cfg.PR.Revision = lastRevision
RevisionKept(c, revision) == c
WithRevision(c, revision) == [c EXCEPT !.PR.Revision = revision]

\* Notify lines 69-73: the merged pull request of the revision
MergedPRNumber ==
    /\ pc = "merged_pr"
    /\ \/ \E n \in MergedNumbers :
             /\ Call("MergedPRNumber", cfg.PR.Revision, "ok")
             /\ cfg' = WithNumber(cfg, n)
             /\ pc' = "marker"
       \/ /\ Call("MergedPRNumber", cfg.PR.Revision, "error")
          /\ cfg' = cfg
          /\ pc' = AfterLookupFailure(cfg.PR)
    /\ UNCHANGED << commits, run, param, parserKind, config, parsed, result, template,
                    errMsgs, labelToAdd, labelColor, currentLabelColor, labels, idx,
                    prLabels, repoColor, templateValue, body, posted, ret, prev >>

\* Notify lines 74-79: fall back to the commits of the revision
ListCommits ==
    /\ pc = "list_commits"
    /\ \/ /\ Call("Commits.List", cfg.PR.Revision, "error")
          /\ ret' = Returned(result.ExitCode, "list commits error")
          /\ cfg' = cfg
          /\ commits' = commits
          /\ pc' = "done"
       \/ \E listing \in CommitListings :
             /\ Call("Commits.List", cfg.PR.Revision, "ok")
             /\ commits' = listing
             /\ cfg' = WithRevision(cfg, lastOne(listing, cfg.PR.Revision))
             /\ ret' = ret
             /\ pc' = "marker"
    /\ UNCHANGED << run, param, parserKind, config, parsed, result, template,
                    errMsgs, labelToAdd, labelColor, currentLabelColor, labels, idx,
                    prLabels, repoColor, templateValue, body, posted, prev >>

\* Notify lines 87-95 with getEmbeddedComment: build and append the marker
EmbeddedComment ==
    /\ pc = "marker"
    /\ \/ /\ Call("getEmbeddedComment", "", "ok")
          /\ body' = [body EXCEPT !.marker =
                         [set |-> TRUE, Vars |-> EmbeddedVars(cfg),
                          SHA1 |-> cfg.PR.Revision, PRNumber |-> cfg.PR.Number,
                          Target |-> EmbeddedTarget(cfg),
                          Command |-> Command(parserKind)]]
          /\ ret' = ret
          /\ pc' = "post"
       \/ /\ Call("getEmbeddedComment", "", "error")
          /\ body' = body
          /\ ret' = Returned(result.ExitCode, "marker error")
          /\ pc' = "done"
    /\ UNCHANGED << commits, run, param, parserKind, config, cfg, parsed, result, template,
                    errMsgs, labelToAdd, labelColor, currentLabelColor, labels, idx,
                    prLabels, repoColor, templateValue, posted, prev >>

\* Notify lines 97-103: post the comment and return
Post ==
    /\ pc = "post"
    /\ posted' = [done |-> TRUE, Number |-> cfg.PR.Number,
                   Revision |-> cfg.PR.Revision, body |-> body]
    /\ \E err \in {NoError, "post error"} :
         /\ Call("Post", "", IF err = NoError THEN "ok" ELSE "error")
         /\ ret' = Returned(result.ExitCode, err)
    /\ pc' = "done"
    /\ UNCHANGED << commits, run, param, parserKind, config, cfg, parsed, result, template,
                    errMsgs, labelToAdd, labelColor, currentLabelColor, labels, idx,
                    prLabels, repoColor, templateValue, body, prev >>

\* the caller runs Notify again with the same parameters and configuration
Invoke ==
    /\ pc = "done"
    /\ run < MaxRuns
    /\ run' = run + 1
    /\ pc' = "start"
    /\ prev' = [ran |-> TRUE,
                 reconciled |-> Called(calls, {"IssuesListLabels"}) # {},
                 failed |-> CalledWith(calls, LabelOps, {"not_found", "error"}) # {},
                 mutated |-> CalledWith(calls, MutationOps, {"ok"}) # {},
                 errMsgs |-> errMsgs]
    /\ cfg' = config
    /\ result' = parsed
    /\ template' = "normal"
    /\ errMsgs' = << >>
    /\ labelToAdd' = ""
    /\ labelColor' = ""
    /\ currentLabelColor' = ""
    /\ labels' = << >>
    /\ idx' = 1
    /\ templateValue' = NoValue
    /\ body' = NoBody
    /\ posted' = NoPost
    /\ ret' = NotReturned
    /\ calls' = << >>
    /\ commits' = << >>
    /\ UNCHANGED << param, parserKind, config, parsed, prLabels, repoColor >>

Next ==
    \/ Parse
    \/ ListLabelsFails
    \/ ListLabelsOK
    \/ RangeTarget
    \/ RangeOther
    \/ RangeStale
    \/ AddLabel
    \/ UpdateLabel
    \/ Render
    \/ MergedPRNumber
    \/ ListCommits
    \/ EmbeddedComment
    \/ Post
    \/ Invoke

Spec == Init /\ [][Next]_vars

\* ------------------------------------------------------------------- claims
\* the Notify invocation has run updateLabels / has left it
Reconciling == Called(calls, {"IssuesListLabels"}) # {}
ReconcileFinished ==
    pc \in {"render", "merged_pr", "list_commits", "marker", "post", "done"} /\ Reconciling
OnlyParsed == calls = << << "Parse", "", "ok" >> >>
AttachedResultLabels == { l \in prLabels : IsResultLabel(config.ResultLabels, l) }

\* C1: on every return path the exit code Notify returns is param.ExitCode,
\* whatever exit code the parser inferred and whatever failed on the way.
C1_ExitCodeIsCallers == ret.returned => ret.code = param.ExitCode

\* C1 witness: Notify returned a post failure after a label failure, and the
\* parser had inferred another exit code than the caller's.
C1_Witness ==
    /\ ret.returned /\ ret.err = "post error"
    /\ parsed.ExitCode # param.ExitCode
    /\ errMsgs # << >>

\* C2 as stated: a ParseResult with an error and a non-empty Result makes Notify
\* return that error and the exit code after no other call than Parse.
C2_Original ==
    (ret.returned /\ parsed.Error # NoError /\ parsed.Result # "")
        => (ret.err = parsed.Error /\ ret.code = param.ExitCode /\ OnlyParsed)

\* C2 as amended: the same, for a ParseResult whose HasParseError is false.
C2_ErrorReturnedUnlessParseError ==
    (ret.returned /\ parsed.Error # NoError /\ parsed.Result # "" /\ ~parsed.HasParseError)
        => (ret.err = parsed.Error /\ ret.code = param.ExitCode /\ OnlyParsed
            /\ ~posted.done /\ ~templateValue.set)

\* C2 witness: such a ParseResult, and Notify has returned.
C2_Witness ==
    /\ ret.returned /\ pc = "done"
    /\ parsed.Error # NoError /\ parsed.Result # "" /\ ~parsed.HasParseError

C4_ParseErrorTemplate ==
    (parsed.HasParseError /\ pc # "start")
        => /\ template = "parse_error"
           /\ templateValue.set => templateValue.template = "parse_error"
           /\ \A i \in Called(calls, {"SetValue", "Execute"}) : calls[i][2] = "parse_error"
           /\ ret.returned => Called(calls, {"Execute"}) # {}
           /\ (ret.returned /\ ret.err = NoError)
                 => (posted.done /\ posted.body.template = "parse_error")

\* C4 witness: HasParseError with an error and an empty Result, and the comment
\* has been posted.
C4_Witness ==
    /\ parsed.HasParseError /\ parsed.Error # NoError /\ parsed.Result = ""
    /\ ret.returned /\ ret.err = NoError /\ posted.done

\* C5: Post is called at most once and is the last call; no Post follows a
\* failed Execute, Commits.List or getEmbeddedComment; a return with the parse
\* error, a render, commit-listing or marker failure has not posted; a Post
\* failure is what Notify returns.
FatalOps == {"Execute", "Commits.List", "getEmbeddedComment"}
C5_PostLastAndOnlyOnSuccess ==
    /\ Cardinality(Called(calls, {"Post"})) <= 1
    /\ \A i \in Called(calls, {"Post"}) : i = Len(calls)
    /\ posted.done <=> Called(calls, {"Post"}) # {}
    /\ \A i \in CalledWith(calls, FatalOps, {"error"}) :
          \A j \in Called(calls, {"Post"}) : j < i
    /\ (ret.returned /\ ret.err \in {ParseErr, "render error", "list commits error",
                                       "marker error"})
          => Called(calls, {"Post"}) = {}
    /\ (ret.returned /\ CalledWith(calls, {"Post"}, {"error"}) # {})
          => ret.err = "post error"

\* C5 witness: Notify returned a post failure in the apply flow after the
\* commit-listing fallback.
C5_Witness ==
    /\ ret.returned /\ ret.err = "post error"
    /\ CalledWith(calls, {"Commits.List"}, {"ok"}) # {}

\* C6 as stated: no failed label-client call stops Notify or keeps the comment
\* from being posted; each failure becomes one message of the ErrorMessages the
\* template receives; Notify returns nil when rendering, PR resolution, marker
\* and posting succeed.
LabelFailures == CalledWith(calls, LabelOps, {"not_found", "error", "no_response"})
C6_Original ==
    /\ pc # "panicked"
    /\ templateValue.set =>
          Len(templateValue.ErrorMessages) = Cardinality(LabelFailures)
    /\ (ret.returned /\ LabelFailures # {}
           /\ CalledWith(calls, FatalOps \cup {"Post"}, {"error"}) = {})
          => (ret.err = NoError /\ posted.done
              /\ posted.body.ErrorMessages = errMsgs)

\* C7: the target label and its color are chosen by first match in the order
\* HasAddOrUpdateOnly, HasDestroy, HasNoChanges, HasPlanError; none of the four
\* selects no label.  Only the selected label is ever added.
C7_TargetByPriority ==
    Reconciling =>
      LET rl == config.ResultLabels IN
      /\ result.HasAddOrUpdateOnly
            => (labelToAdd = rl.AddOrUpdateLabel /\ labelColor = rl.AddOrUpdateLabelColor)
      /\ (~result.HasAddOrUpdateOnly /\ result.HasDestroy)
            => (labelToAdd = rl.DestroyLabel /\ labelColor = rl.DestroyLabelColor)
      /\ (~result.HasAddOrUpdateOnly /\ ~result.HasDestroy /\ result.HasNoChanges)
            => (labelToAdd = rl.NoChangesLabel /\ labelColor = rl.NoChangesLabelColor)
      /\ (~result.HasAddOrUpdateOnly /\ ~result.HasDestroy /\ ~result.HasNoChanges
             /\ result.HasPlanError)
            => (labelToAdd = rl.PlanErrorLabel /\ labelColor = rl.PlanErrorLabelColor)
      /\ (~result.HasAddOrUpdateOnly /\ ~result.HasDestroy /\ ~result.HasNoChanges
             /\ ~result.HasPlanError)
            => (labelToAdd = "" /\ labelColor = "" /\ Called(calls, {"IssuesAddLabels"}) = {})
      /\ \A i \in Called(calls, {"IssuesAddLabels", "IssuesUpdateLabel"}) :
            calls[i][2] = labelToAdd

\* C7 witness: HasAddOrUpdateOnly and HasDestroy both hold, both labels are
\* configured, and the AddOrUpdate label has been added.
C7_Witness ==
    /\ result.HasAddOrUpdateOnly /\ result.HasDestroy
    /\ config.ResultLabels.DestroyLabel # ""
    /\ CalledWith(calls, {"IssuesAddLabels"}, {"ok"}) # {}
    /\ labelToAdd = "add-or-update"
    /\ "add-or-update" \in prLabels

\* C8: when every label-client call of the reconciliation succeeds, the result
\* labels attached afterwards are exactly the target label (none without a
\* target), the target has its configured color if one is configured, and no
\* error message is returned.
C8_ExactlyTheTargetOnSuccess ==
    (ReconcileFinished /\ LabelFailures = {})
        => /\ AttachedResultLabels = (IF labelToAdd = "" THEN {} ELSE {labelToAdd})
           /\ labelColor # "" => repoColor[labelToAdd] = labelColor
           /\ errMsgs = << >>

\* C8 witness: the pull request carried "destroy" and "unrelated", the plan has
\* no changes: "destroy" was removed, "no-changes" added and colored.
C8_Witness ==
    /\ ReconcileFinished /\ LabelFailures = {} /\ run = 1
    /\ labelToAdd = "no-changes" /\ labelColor = OtherColor
    /\ CalledWith(calls, {"IssuesRemoveLabel"}, {"ok"}) # {}
    /\ CalledWith(calls, {"IssuesUpdateLabel"}, {"ok"}) # {}
    /\ prLabels = {"no-changes", "unrelated"}
    /\ repoColor["no-changes"] = OtherColor
    /\ errMsgs = << >>

\* C9 as stated: after reconciliation at most one result label is attached,
\* whatever the outcome of the list, remove, add and color-update calls.
C9_Original == ReconcileFinished => Cardinality(AttachedResultLabels) <= 1

\* C9 as amended: at most one result label is attached after a reconciliation
\* whose list call and remove calls all succeeded, whatever the outcome of the
\* add and color-update calls.
C9_AtMostOneWhenRemovalsSucceed ==
    (ReconcileFinished
       /\ CalledWith(calls, {"IssuesListLabels", "IssuesRemoveLabel"},
                      {"not_found", "error", "no_response"}) = {})
        => Cardinality(AttachedResultLabels) <= 1

\* C9 witness: two stale result labels were removed and the add call failed.
C9_Witness ==
    /\ ReconcileFinished
    /\ Cardinality(CalledWith(calls, {"IssuesRemoveLabel"}, {"ok"})) = 2
    /\ CalledWith(calls, {"IssuesAddLabels"}, {"error"}) # {}
    /\ CalledWith(calls, {"IssuesListLabels", "IssuesRemoveLabel"},
                   {"not_found", "error", "no_response"}) = {}
    /\ AttachedResultLabels = {}

\* C10 as stated: a second reconciliation right after a first one, with the
\* same ParseResult and configuration, issues no remove, add or color update.
C10_Original ==
    (run > 1 /\ prev.reconciled) => Called(calls, MutationOps) = {}

\* C10 as amended: the same, when every label-client call of the first
\* reconciliation succeeded and the list call of the second one succeeds.
C10_IdempotentAfterSuccess ==
    (run > 1 /\ prev.reconciled /\ ~prev.failed
       /\ CalledWith(calls, {"IssuesListLabels"}, {"error"}) = {})
        => Called(calls, MutationOps) = {}

\* C10 witness: the first reconciliation changed labels and succeeded, the
\* second one has listed the labels, found the target and finished.
C10_Witness ==
    /\ run > 1 /\ prev.reconciled /\ prev.mutated /\ ~prev.failed
    /\ ReconcileFinished
    /\ labelToAdd # "" /\ currentLabelColor # ""
    /\ CalledWith(calls, {"IssuesListLabels"}, {"ok"}) # {}

\* the listed labels that removeResultLabels has to remove
StaleListed ==
    { i \in 1 .. Len(labels) :
        labels[i] # labelToAdd /\ IsResultLabel(config.ResultLabels, labels[i]) }
RemoveCallsFor(l) == { i \in Called(calls, {"IssuesRemoveLabel"}) : calls[i][2] = l }
ListedOK == CalledWith(calls, {"IssuesListLabels"}, {"ok"}) # {}

\* C11: a removal answered with not-found adds no error message and does not
\* stop the reconciliation: the messages are exactly the failures other than
\* not-found, and unless such another failure happens every stale label of the
\* listing is submitted for removal and the missing target is added.
C11_NotFoundIsSuccess ==
    (ReconcileFinished /\ CalledWith(calls, {"IssuesRemoveLabel"}, {"not_found"}) # {})
        => /\ Len(errMsgs) = Cardinality(CalledWith(calls, LabelOps, {"error"}))
           /\ CalledWith(calls, {"IssuesRemoveLabel"}, {"error"}) = {}
                 => /\ \A i \in StaleListed : RemoveCallsFor(labels[i]) # {}
                    /\ (labelToAdd # "" /\ \A i \in 1 .. Len(labels) : labels[i] # labelToAdd)
                          => Called(calls, {"IssuesAddLabels"}) # {}

\* C11 witness: the first removal was answered with not-found, a second stale
\* label was removed after it, the target was added, and no message was built.
C11_Witness ==
    /\ ReconcileFinished /\ errMsgs = << >>
    /\ \E i \in CalledWith(calls, {"IssuesRemoveLabel"}, {"not_found"}) :
         \E j \in CalledWith(calls, {"IssuesRemoveLabel"}, {"ok"}) : i < j
    /\ CalledWith(calls, {"IssuesAddLabels"}, {"ok"}) # {}

\* the apply flow: outcome of the merged-PR lookup and of the commit listing
LookupFailed == CalledWith(calls, {"MergedPRNumber"}, {"error"}) # {}
LookupOK == CalledWith(calls, {"MergedPRNumber"}, {"ok"}) # {}
CommitsListed == CalledWith(calls, {"Commits.List"}, {"ok"}) # {}
MostRecent(listing, sha) ==
    \E i \in 1 .. Len(listing) :
        /\ listing[i].sha = sha
        /\ \A j \in 1 .. Len(listing) : listing[j].time <= listing[i].time

\* C12: apply flow, no PR number, the merged-PR lookup failed and the listing
\* returned commits: the working revision is the most recent commit of the
\* listing, and the marker and the comment carry that revision.
C12_FallbackToMostRecentCommit ==
    (CommitsListed /\ commits # << >>)
        => /\ parserKind = "apply" /\ ~IsNumber(config.PR) /\ LookupFailed
           /\ MostRecent(commits, cfg.PR.Revision)
           /\ body.marker.set => body.marker.SHA1 = cfg.PR.Revision
           /\ posted.done => (posted.Revision = cfg.PR.Revision
                               /\ posted.body.marker.SHA1 = cfg.PR.Revision)

\* C12 witness: the listing returned an older commit and then the head commit,
\* and the comment was posted with the head commit.
C12_Witness ==
    /\ CommitsListed /\ commits = << CommitOlder, CommitHead >>
    /\ posted.done /\ posted.Revision = HeadRevision
    /\ posted.body.marker.SHA1 = HeadRevision

\* C13: a failed merged-PR lookup is never what Notify returns.  With a PR
\* number known no commits are listed and the comment goes to that number with
\* the revision unchanged; without one the commits are listed, and only a
\* failed listing returns its error, without posting.  After a successful
\* lookup the comment goes to the resolved number and no commits are listed.
C13_LookupFailureIsNotFatal ==
    /\ \A i \in CalledWith(calls, {"MergedPRNumber"}, {"error"}) :
          ret.returned => i < Len(calls)
    /\ (LookupFailed /\ IsNumber(config.PR))
          => /\ Called(calls, {"Commits.List"}) = {}
             /\ posted.done => (posted.Number = config.PR.Number
                                 /\ posted.Revision = config.PR.Revision)
    /\ (LookupFailed /\ ~IsNumber(config.PR) /\ pc # "list_commits")
          => /\ Called(calls, {"Commits.List"}) # {}
             /\ CalledWith(calls, {"Commits.List"}, {"error"}) # {}
                   => (pc = "done" /\ ret.err = "list commits error" /\ ~posted.done)
             /\ (ret.returned /\ CommitsListed)
                   => ret.err \in {NoError, "marker error", "post error"}
    /\ LookupOK
          => /\ Called(calls, {"Commits.List"}) = {}
             /\ cfg.PR.Number \in MergedNumbers
             /\ cfg.PR.Revision = config.PR.Revision
             /\ posted.done => (posted.Number = cfg.PR.Number
                                 /\ posted.Revision = config.PR.Revision)

\* C13 witness: the lookup failed with a PR number known and the comment was
\* posted to it.
C13_Witness ==
    /\ LookupFailed /\ IsNumber(config.PR)
    /\ posted.done /\ ret.returned /\ ret.err = NoError
    /\ posted.Number = config.PR.Number

\* what the marker must carry, save for Command
MarkerInputs ==
    LET m == body.marker
        names == { cfg.EmbeddedVarNames[i] : i \in 1 .. Len(cfg.EmbeddedVarNames) }
    IN /\ DOMAIN m.Vars = names
       /\ \A n \in names :
             m.Vars[n] = (IF n \in DOMAIN cfg.Vars THEN cfg.Vars[n] ELSE "")
       /\ m.Target.present <=> ("target" \in DOMAIN cfg.Vars /\ cfg.Vars["target"] # "")
       /\ m.Target.present => m.Target.value = cfg.Vars["target"]
       /\ m.SHA1 = cfg.PR.Revision /\ m.PRNumber = cfg.PR.Number
       /\ posted.done => (posted.body.marker = m /\ posted.Revision = m.SHA1
                           /\ posted.Number = m.PRNumber)

\* C14 as stated: Vars holds exactly the allow-listed names with their
\* configured values, Target is there only for a non-empty "target" variable,
\* Command is "plan" exactly for a plan and "apply" exactly for an apply, SHA1
\* and PRNumber are those the comment is posted with.
C14_Original ==
    body.marker.set
        => /\ MarkerInputs
           /\ body.marker.Command = "plan" <=> parserKind = "plan"
           /\ body.marker.Command = "apply" <=> parserKind = "apply"

\* C14 as amended: the same, with Command "apply" for every operation that is
\* not a plan.
C14_MarkerInputs ==
    body.marker.set
        => /\ MarkerInputs
           /\ body.marker.Command = "plan" <=> parserKind = "plan"
           /\ body.marker.Command = "apply" <=> parserKind # "plan"

\* C14 witness: an apply whose PR number was resolved, with a configured
\* variable outside the allow-list, an allow-listed name that is not
\* configured and an empty "target"; the comment is posted.
C14_Witness ==
    /\ posted.done /\ parserKind = "apply" /\ LookupOK
    /\ cfg.Vars = VarsEmptyTarget /\ cfg.EmbeddedVarNames = << "env", "region" >>
    /\ posted.body.marker.Vars = [env |-> "dev", region |-> ""]
    /\ ~posted.body.marker.Target.present
    /\ posted.body.marker.Command = "apply"
    /\ posted.body.marker.PRNumber \in MergedNumbers

TargetListed == \E i \in 1 .. Len(labels) : labels[i] = labelToAdd
RemovalFailed ==
    \E i \in 1 .. Len(calls) : calls[i][1] = "IssuesRemoveLabel" /\ calls[i][3] = "error"
AddCalled == \E i \in 1 .. Len(calls) : calls[i][1] = "IssuesAddLabels"
AddedOK ==
    \E i \in 1 .. Len(calls) : calls[i][1] = "IssuesAddLabels" /\ calls[i][3] = "ok"
UpdateCalled == \E i \in 1 .. Len(calls) : calls[i][1] = "IssuesUpdateLabel"

\* C15 as stated: after a removal that failed with another status than
\* not-found, the failure is one error message, every other stale label of the
\* listing is still submitted for removal, the color of a listed target is
\* remembered, and the add step runs for a target that is not attached.
C15_Original ==
    (ReconcileFinished /\ ListedOK /\ RemovalFailed)
        => /\ Len(errMsgs) = Cardinality(CalledWith(calls, LabelOps, {"error"}))
           /\ \A i \in StaleListed : RemoveCallsFor(labels[i]) # {}
           /\ (labelToAdd # "" /\ TargetListed) => currentLabelColor # ""
           /\ (labelToAdd # "" /\ ~TargetListed) => AddCalled

\* C16 as stated: the target is added exactly when it was selected and is not
\* attached; its color is updated exactly when a color is configured and
\* differs from the color the add call returned or the listing showed.
C16_Original ==
    /\ pc = "add_label" => (labelToAdd # "" /\ labelToAdd \notin prLabels)
    /\ (ReconcileFinished /\ labelToAdd # "" /\ ~AddCalled) => labelToAdd \in prLabels
    /\ pc = "update_label" => (labelColor # "" /\ repoColor[labelToAdd] # labelColor)
    /\ (ReconcileFinished /\ labelToAdd # "" /\ ~UpdateCalled
           /\ (AddedOK \/ currentLabelColor # ""))
          => (labelColor = "" \/ repoColor[labelToAdd] = labelColor)

\* C16 as amended: the target is added exactly when it was selected and
\* removeResultLabels returned no color for it (target not listed, listing
\* failed, or a removal failed before the target was reached); after a
\* successful listing without a failed removal that is exactly when the target
\* is not attached.  The color is updated exactly when a color is configured,
\* the current color is known (from a successful add or from the listing) and
\* the two differ.
C16_AddWhenNoColorRemembered ==
    /\ pc = "add_label"
          => /\ labelToAdd # "" /\ currentLabelColor = ""
             /\ ~AddCalled
             /\ (ListedOK /\ ~RemovalFailed) => labelToAdd \notin prLabels
    /\ pc = "update_label"
          => /\ labelColor # "" /\ repoColor[labelToAdd] # labelColor
             /\ AddedOK \/ currentLabelColor # ""
             /\ ~UpdateCalled
    /\ ReconcileFinished
          => /\ AddCalled <=> (labelToAdd # "" /\ currentLabelColor = "")
             /\ (ListedOK /\ ~RemovalFailed)
                   => (AddCalled <=> (labelToAdd # "" /\ ~TargetListed))
             /\ UpdateCalled => (AddedOK \/ currentLabelColor # "")
             /\ (labelToAdd # "" /\ ~UpdateCalled /\ (AddedOK \/ currentLabelColor # ""))
                   => (labelColor = "" \/ repoColor[labelToAdd] = labelColor)

\* C16 witness: the target was listed with another color than the configured
\* one: no add call, one color update.
C16_Witness ==
    /\ ReconcileFinished /\ ListedOK /\ TargetListed /\ labelToAdd # ""
    /\ ~AddCalled
    /\ CalledWith(calls, {"IssuesUpdateLabel"}, {"ok"}) # {}
    /\ currentLabelColor = DefaultColor /\ repoColor[labelToAdd] = OtherColor

MayReconcile ==
    /\ parserKind = "plan"
    /\ IsNumber(config.PR)
    /\ HasAnyLabelDefined(config.ResultLabels)
InReconcile == pc \in {"list_labels", "range_labels", "add_label", "update_label"}

\* C17: label calls are made, and the reconciler is entered, only for a plan
\* with a PR number and at least one configured result label; in every other
\* invocation there is no list, add, remove or color-update call and the
\* error-message list handed to the template is empty.  Conversely such a plan
\* that reaches the template has listed the labels.
C17_LabelCallsOnlyForPlanWithPRAndLabels ==
    /\ Called(calls, LabelOps) # {} => MayReconcile
    /\ InReconcile => MayReconcile
    /\ ~MayReconcile
          => /\ Called(calls, LabelOps) = {}
             /\ errMsgs = << >>
             /\ templateValue.ErrorMessages = << >>
             /\ body.ErrorMessages = << >>
    /\ (MayReconcile /\ templateValue.set) => Reconciling

\* C17 witness: an apply with a PR number and result labels configured posted
\* its comment without any label call.
C17_Witness ==
    /\ parserKind = "apply"
    /\ IsNumber(config.PR)
    /\ HasAnyLabelDefined(config.ResultLabels)
    /\ templateValue.set
    /\ posted.done
    /\ Called(calls, LabelOps) = {}

C18_Step ==
    /\ \A l \in AllLabels :
          ~IsResultLabel(config.ResultLabels, l)
              => /\ (l \in prLabels') <=> (l \in prLabels)
                 /\ repoColor'[l] = repoColor[l]
    /\ (prLabels' \ prLabels) \subseteq {labelToAdd'}
    /\ (labelToAdd' # "" /\ labelToAdd' \in prLabels) => labelToAdd' \in prLabels'
    /\ \A i \in Called(calls', {"IssuesRemoveLabel"}) :
          /\ IsResultLabel(config.ResultLabels, calls'[i][2])
          /\ calls'[i][2] # labelToAdd'
    /\ \A i \in Called(calls', {"IssuesAddLabels"}) : calls'[i][2] = labelToAdd'

\* C18: no step of Notify attaches, detaches or recolors a label outside the
\* configured result-label set; every remove call names a result label other
\* than the target, the target is never detached, and the only label ever
\* added is the target.
C18_OnlyResultLabelsTouched == [][C18_Step]_vars

\* C18 witness: the listing held the label "unrelated" beside a stale result
\* label; the stale label was removed, the target added, "unrelated" is still
\* attached.
C18_Witness ==
    /\ ReconcileFinished
    /\ \E i \in 1 .. Len(labels) : labels[i] = "unrelated"
    /\ "unrelated" \in prLabels
    /\ CalledWith(calls, {"IssuesRemoveLabel"}, {"ok"}) # {}
    /\ AddedOK
    /\ labelToAdd \in prLabels

====
